---- MODULE Spec2Model ----
(***************************************************************************)
(* Model of the assignment bot of src/bot.py: the JSON backing file, the   *)
(* three slash-command handlers (assignment_add, assignment_list,          *)
(* assignment_remove) and the deadline formatting they use.                *)
(*                                                                         *)
(* Time.  A datetime is modelled as the number of minutes since            *)
(* 2024-06-01 00:00; an ISO string is the tuple <<Y, m, d, H, M>> of its   *)
(* numeric fields; a deadline text typed by the user is the tuple of the   *)
(* numeric fields found between the separators of "%Y-%m-%d %H:%M" (a text *)
(* of another shape is a tuple of another length).                         *)
(*                                                                         *)
(* Scheduling.  The handlers are coroutines of one asyncio event loop.     *)
(* Each handler runs from its first line to its only suspension point,     *)
(* `await interaction.response.send_message(...)`, without yielding: that  *)
(* synchronous section is one action.  A handler suspended in send_message *)
(* is counted in `inflight` until the send completes (Respond).            *)
(***************************************************************************)
EXTENDS Integers, Sequences, FiniteSets, TLC

VARIABLES
    file,      \* content of data/assignments.json
    now,       \* the wall clock, datetime.now()
    inflight,  \* handlers suspended in `await ...send_message(...)`
    last       \* the most recent handler run: its arguments and its reply

vars == <<file, now, inflight, last>>

-----------------------------------------------------------------------------
(* Bounds of the model *)

MaxTicks == 1
MaxInFlight == 2

(* Program constants *)

MAX_ASSIGNMENTS_DISPLAY == 10
MinutesPerDay == 1440
MinPriority == 1
MaxPriority == 5
DefaultPriority == 3

TickStep == MinutesPerDay \div 2

-----------------------------------------------------------------------------
(* Inputs *)

Names == {"", "hw"}
Users == {101, 102}
NoDetails == "None"
DetailsArgs == {NoDetails}
\* Stands for an optional argument the caller left out.
Omitted == 0 - 99
PriorityArgs == {Omitted, 0, 3, 9}
LimitArgs == {Omitted, -1, 0, 1}

\* "2024-06-01 00:00", "2024-06-01 12:00"
GoodTexts == {<<2024, 6, 1, 0, 0>>, <<2024, 6, 1, 12, 0>>}
\* "2024-13-01 12:00", "2024-06-01" (no time part)
BadTexts == {<<2024, 13, 1, 12, 0>>, <<2024, 6, 1>>}
DeadlineTexts == GoodTexts \cup BadTexts

-----------------------------------------------------------------------------
(* datetime *)

Min(a, b) == IF a <= b THEN a ELSE b
Max(a, b) == IF a >= b THEN a ELSE b

DaysInMonth(y, m) ==
    IF m \in {4, 6, 9, 11} THEN 30
    ELSE IF m # 2 THEN 31
    ELSE IF (y % 4 = 0 /\ y % 100 # 0) \/ y % 400 = 0 THEN 29
    ELSE 28

\* Faulty variant: Only the shape of the text is checked, not the range of its fields.
strptime_shape_only(text) == Len(text) = 5

\* datetime.strptime(text, DATE_FORMAT) raises ValueError unless this holds.
strptime_ok(text) ==
    /\ Len(text) = 5
    /\ text[1] \in 1..9999
    /\ text[2] \in 1..12
    /\ text[3] \in 1..DaysInMonth(text[1], text[2])
    /\ text[4] \in 0..23
    /\ text[5] \in 0..59

\* datetime.strptime(text, DATE_FORMAT), for a text that parses (the model's
\* deadlines all lie in June 2024, so the minute count needs no calendar).
strptime(text) == ((text[3] - 1) * 24 + text[4]) * 60 + text[5]

\* datetime.isoformat()
isoformat(dt) ==
    <<2024, 6, (dt \div MinutesPerDay) + 1, (dt % MinutesPerDay) \div 60, dt % 60>>

\* datetime.fromisoformat(s)
fromisoformat(s) == ((s[3] - 1) * 24 + s[4]) * 60 + s[5]

\* timedelta.days: timedelta normalises to days (floor) plus a non-negative rest.
timedelta_days(delta) == delta \div MinutesPerDay

Abs(n) == IF n < 0 THEN -n ELSE n

\* AssignmentManager.format_deadline(deadline_str, TimeFormat.RELATIVE)
format_deadline(deadline_str, clock) ==
    LET deadline == fromisoformat(deadline_str)
        delta == deadline - clock
    IN  IF delta < 0 THEN <<"days ago", Abs(timedelta_days(delta))>>
        ELSE IF delta < MinutesPerDay THEN <<"Today", 0>>
        ELSE IF delta < 2 * MinutesPerDay THEN <<"Tomorrow", 0>>
        ELSE <<"In days", timedelta_days(delta)>>

-----------------------------------------------------------------------------
(* dict: a Python dict is a sequence of <<key, value>> in insertion order *)

Keys(d) == {d[i][1] : i \in 1..Len(d)}

Has(d, k) == \E i \in 1..Len(d) : d[i][1] = k

Get(d, k) == d[CHOOSE i \in 1..Len(d) : d[i][1] = k][2]

\* Faulty variant: The pair is appended even when the key is already there.
dict_set_append(d, k, v) == Append(d, <<k, v>>)

\* Faulty variant: The value is assigned under every key of the dict.
dict_set_all_keys(d, k, v) ==
    IF Has(d, k)
    THEN [i \in 1..Len(d) |-> <<d[i][1], v>>]
    ELSE Append([i \in 1..Len(d) |-> <<d[i][1], v>>], <<k, v>>)

\* d[k] = v
dict_set(d, k, v) ==
    IF Has(d, k)
    THEN [i \in 1..Len(d) |-> IF d[i][1] = k THEN <<k, v>> ELSE d[i]]
    ELSE Append(d, <<k, v>>)

\* Faulty variant: The oldest item is dropped, whatever the key.
dict_del_first(d, k) == Tail(d)

\* del d[k]
dict_del(d, k) == SelectSeq(d, LAMBDA e : e[1] # k)

-----------------------------------------------------------------------------
(* The backing file *)

Absent == [kind |-> "absent", items |-> <<>>]
NotJson == [kind |-> "text", items |-> <<>>]
JsonArray == [kind |-> "array", items |-> <<>>]
JsonObject(d) == [kind |-> "object", items |-> d]

\* Faulty variant: The file is never found: every load starts from an empty mapping.
load_assignments_not_found(f) == [type |-> "dict", items |-> <<>>]

\* AssignmentManager.load_assignments(): what the handler gets back.
load_assignments(f) ==
    IF f.kind = "absent" THEN [type |-> "dict", items |-> <<>>]
    ELSE IF f.kind = "text" THEN [type |-> "dict", items |-> <<>>]
    ELSE IF f.kind = "array" THEN [type |-> "list", items |-> <<>>]
    ELSE [type |-> "dict", items |-> f.items]

\* AssignmentManager.save_assignments(data): the file afterwards.
save_assignments(data) == JsonObject(data)

-----------------------------------------------------------------------------
(* assignment_add *)

\* Faulty variant: The lower bound is forgotten.
clamp_upper_only(priority) == Min(priority, MaxPriority)

\* min(max(1, priority), 5)
clamp(priority) == Min(Max(MinPriority, priority), MaxPriority)

\* The priority parameter, with its default.
priority_param(p) == IF p = Omitted THEN DefaultPriority ELSE p

\* details or ""
details_or_empty(details) == IF details = NoDetails THEN "" ELSE details

new_record(user, deadline_date, details, priority, clock) ==
    [ deadline |-> isoformat(deadline_date),
      details  |-> details_or_empty(details),
      priority |-> clamp(priority_param(priority)),
      added_by |-> user,
      added_at |-> isoformat(clock) ]

\* The record of one handler run: the command and the arguments it was given,
\* whether it called load_assignments and save_assignments, and what it replied
\* (result "exception": it raised, and replied nothing).
AddRun(name, deadline, priority, result, loaded, saved) ==
    [op |-> "add", name |-> name, deadline |-> deadline, priority |-> priority,
     show_all |-> FALSE, limit |-> Omitted,
     result |-> result, loaded |-> loaded, saved |-> saved, shown |-> <<>>]

RemoveRun(name, result, saved) ==
    [op |-> "remove", name |-> name, deadline |-> <<>>, priority |-> Omitted,
     show_all |-> FALSE, limit |-> Omitted,
     result |-> result, loaded |-> TRUE, saved |-> saved, shown |-> <<>>]

ListRun(show_all, limit, result, shown) ==
    [op |-> "list", name |-> "", deadline |-> <<>>, priority |-> Omitted,
     show_all |-> show_all, limit |-> limit,
     result |-> result, loaded |-> TRUE, saved |-> FALSE, shown |-> shown]

NoRun ==
    [op |-> "none", name |-> "", deadline |-> <<>>, priority |-> Omitted,
     show_all |-> FALSE, limit |-> Omitted,
     result |-> "none", loaded |-> FALSE, saved |-> FALSE, shown |-> <<>>]

add_assignment(user, name, deadline, details, priority) ==
    IF ~strptime_ok(deadline)
    THEN \* except ValueError: the "Invalid Date Format" embed
         /\ inflight < MaxInFlight
         /\ last' = AddRun(name, deadline, priority, "invalid_deadline", FALSE, FALSE)
         /\ inflight' = inflight + 1
         /\ UNCHANGED <<file, now>>
    ELSE LET assignments == load_assignments(file) IN
         IF assignments.type # "dict"
         THEN \* assignments[name] = ... raises TypeError, which nothing catches
              /\ last' = AddRun(name, deadline, priority, "exception", TRUE, FALSE)
              /\ UNCHANGED <<file, now, inflight>>
         ELSE /\ inflight < MaxInFlight
              /\ file' = save_assignments(
                            dict_set(assignments.items, name,
                                     new_record(user, strptime(deadline),
                                                details, priority, now)))
              /\ last' = AddRun(name, deadline, priority, "added", TRUE, TRUE)
              /\ inflight' = inflight + 1
              /\ UNCHANGED now

-----------------------------------------------------------------------------
(* assignment_remove *)

remove_assignment(name) ==
    LET assignments == load_assignments(file) IN
    /\ inflight < MaxInFlight
    /\ IF assignments.type = "dict" /\ Has(assignments.items, name)
       THEN /\ file' = save_assignments(dict_del(assignments.items, name))
            /\ last' = RemoveRun(name, "removed", TRUE)
       ELSE /\ last' = RemoveRun(name, "not_found", FALSE)
            /\ UNCHANGED file
    /\ inflight' = inflight + 1
    /\ UNCHANGED now

-----------------------------------------------------------------------------
(* assignment_list *)

\* list.sort(key=lambda x: x[2]): stable insertion of e into a sorted list.
RECURSIVE insert_sorted(_, _)
insert_sorted(s, e) ==
    IF s = <<>> THEN <<e>>
    ELSE IF fromisoformat(e[2].deadline) < fromisoformat(Head(s)[2].deadline)
         THEN <<e>> \o s
         ELSE <<Head(s)>> \o insert_sorted(Tail(s), e)

RECURSIVE sort_by_deadline(_)
sort_by_deadline(s) ==
    IF s = <<>> THEN <<>>
    ELSE insert_sorted(sort_by_deadline(SubSeq(s, 1, Len(s) - 1)), s[Len(s)])

\* Faulty variant: An entry due exactly now is not taken as upcoming.
upcoming_strict(items, clock) ==
    sort_by_deadline(SelectSeq(items, LAMBDA e : fromisoformat(e[2].deadline) > clock))

\* upcoming: the entries with deadline >= now, sorted by deadline.
upcoming_of(items, clock) ==
    sort_by_deadline(SelectSeq(items, LAMBDA e : fromisoformat(e[2].deadline) >= clock))

\* past: the other entries, sorted by deadline.
past_of(items, clock) ==
    sort_by_deadline(SelectSeq(items, LAMBDA e : ~(fromisoformat(e[2].deadline) >= clock)))

\* upcoming + (past if show_all else [])
assignments_to_show(items, clock, show_all) ==
    upcoming_of(items, clock) \o (IF show_all THEN past_of(items, clock) ELSE <<>>)

\* The limit parameter, with its default.
limit_param(l) == IF l = Omitted THEN MAX_ASSIGNMENTS_DISPLAY ELSE l

\* s[:limit]
slice_to(s, limit) ==
    IF limit >= 0 THEN SubSeq(s, 1, Min(limit, Len(s)))
    ELSE SubSeq(s, 1, Max(Len(s) + limit, 0))

\* One embed field per shown assignment: its name and format_assignment's text.
render(s, clock) ==
    [i \in 1..Len(s) |-> <<s[i][1], format_deadline(s[i][2].deadline, clock)>>]

list_assignments(show_all, limit) ==
    LET assignments == load_assignments(file)
        to_show == assignments_to_show(assignments.items, now, show_all)
    IN
    /\ inflight < MaxInFlight
    /\ IF assignments.items = <<>>
       THEN last' = ListRun(show_all, limit, "no_assignments", <<>>)
       ELSE IF to_show = <<>>
       THEN last' = ListRun(show_all, limit, "no_upcoming", <<>>)
       ELSE last' = ListRun(show_all, limit, "listed",
                            render(slice_to(to_show, limit_param(limit)), now))
    /\ inflight' = inflight + 1
    /\ UNCHANGED <<file, now>>

-----------------------------------------------------------------------------
(* Environment *)

\* A suspended send_message completes and its handler returns.
Respond ==
    /\ inflight > 0
    /\ inflight' = inflight - 1
    /\ UNCHANGED <<file, now, last>>

\* Time passes.
Tick ==
    /\ now < MaxTicks * TickStep
    /\ now' = now + TickStep
    /\ UNCHANGED <<file, inflight, last>>

-----------------------------------------------------------------------------
(* Specifications *)

Init ==
    /\ file \in {Absent, NotJson}
    /\ now = 0
    /\ inflight = 0
    /\ last = NoRun

\* The backing file may also have been left holding JSON that is not an object.
InitAnyFile ==
    /\ file \in {Absent, NotJson, JsonArray}
    /\ now = 0
    /\ inflight = 0
    /\ last = NoRun

Add ==
    \E user \in Users, name \in Names, deadline \in DeadlineTexts,
       details \in DetailsArgs, priority \in PriorityArgs :
        add_assignment(user, name, deadline, details, priority)

Remove == \E name \in Names : remove_assignment(name)

List == \E show_all \in BOOLEAN, limit \in LimitArgs : list_assignments(show_all, limit)

Next == Add \/ Remove \/ List \/ Respond \/ Tick

Spec == Init /\ [][Next]_vars

SpecAnyFile == InitAnyFile /\ [][Next]_vars

-----------------------------------------------------------------------------
(* Reading the store *)

\* The mapping file f holds (none unless it holds a JSON object).
Store(f) == IF f.kind = "object" THEN f.items ELSE <<>>

\* The entry stored under name n in file f, as a sequence of zero or one records.
EntryOf(f, n) == IF Has(Store(f), n) THEN <<Get(Store(f), n)>> ELSE <<>>

Occurrences(d, n) == Cardinality({i \in 1..Len(d) : d[i][1] = n})

\* The deadline of the entry stored under n, as a datetime.
Due(d, n) == fromisoformat(Get(d, n).deadline)

\* A step in which a handler ran to its reply (send_message was called).
CommandStep == inflight' = inflight + 1

-----------------------------------------------------------------------------
(* C1: name uniqueness and overwrite *)

\* The store never holds two entries under one name.
UniqueNames == \A n \in Names : Occurrences(Store(file), n) <= 1

\* What an accepted add of `name` with deadline text `deadline` leaves behind.
AddReplaces(name, deadline) ==
    /\ file'.kind = "object"
    /\ Occurrences(Store(file'), name) = 1
    /\ Get(Store(file'), name).deadline = <<2024, 6, deadline[3], deadline[4], deadline[5]>>
    /\ \A m \in Names \ {name} : EntryOf(file', m) = EntryOf(file, m)

\* C1: after any sequence of add and remove commands the store holds at most
\* one entry per name, and an add (also one for a name that already exists)
\* leaves exactly one entry under that name, with the deadline just given,
\* and every entry under another name as it was.
C1_OneEntryPerName ==
    [][ /\ UniqueNames'
        /\ (last'.op = "add" /\ last'.result = "added")
              => AddReplaces(last'.name, last'.deadline) ]_vars

\* "hw" was stored before "" was (it comes first in the mapping) and was
\* written again, with another deadline, after the entry under "" was last
\* written: it was overwritten in place, and the other entry stayed.
C1_Witness ==
    /\ last.op = "add" /\ last.name = "hw" /\ last.result = "added"
    /\ Len(Store(file)) = 2
    /\ Store(file)[1][1] = "hw"
    /\ Store(file)[1][2].added_at = isoformat(TickStep)
    /\ Store(file)[1][2].deadline = isoformat(TickStep)
    /\ Store(file)[2][2].added_at = isoformat(0)

-----------------------------------------------------------------------------
(* C2: an unparseable deadline *)

\* C2: an add whose deadline text does not parse is answered with the
\* invalid-deadline reply and leaves the file exactly as it was, without
\* loading or saving; an add whose deadline parses is accepted whatever its
\* name (the empty name and a name already stored included).
C2_InvalidDeadlineRejected ==
    [][ /\ last'.op = "add" =>
              /\ (last'.deadline \in BadTexts) = (last'.result = "invalid_deadline")
              /\ (last'.deadline \in GoodTexts) = (last'.result = "added")
        /\ last'.result = "invalid_deadline" =>
              /\ file' = file
              /\ ~last'.loaded /\ ~last'.saved
        /\ (last'.result = "invalid_deadline" /\ last' # last) => CommandStep ]_vars

\* An invalid add was answered while the store held an entry under the empty
\* name and one under "hw", both accepted earlier.
C2_Witness ==
    /\ last.op = "add" /\ last.result = "invalid_deadline"
    /\ Len(last.deadline) = 3
    /\ Has(Store(file), "") /\ Has(Store(file), "hw")

-----------------------------------------------------------------------------
(* C3: remove *)

\* C3: remove deletes the entry under the name if there is one and replies
\* removed, leaving the other entries alone; otherwise it replies not found and
\* neither changes nor saves the file; removing a name right after it was
\* removed replies not found.
C3_RemoveReportsPresence ==
    [][ (CommandStep /\ last'.op = "remove") =>
          /\ IF Has(Store(file), last'.name)
             THEN /\ last'.result = "removed"
                  /\ last'.saved
                  /\ ~Has(Store(file'), last'.name)
                  /\ \A m \in Names \ {last'.name} : EntryOf(file', m) = EntryOf(file, m)
             ELSE /\ last'.result = "not_found"
                  /\ ~last'.saved
                  /\ file' = file
          /\ (last.op = "remove" /\ last.result = "removed" /\ last.name = last'.name)
                => last'.result = "not_found" ]_vars

\* "hw" was not found although the file holds a mapping, with the entry under
\* the empty name still in it.
C3_Witness ==
    /\ last.op = "remove" /\ last.name = "hw" /\ last.result = "not_found"
    /\ file.kind = "object"
    /\ Keys(Store(file)) = {""}

-----------------------------------------------------------------------------
(* C4: the priority clamp *)

\* The priority the claim has stored for each priority given.
ClampedAsClaimed(p) ==
    CASE p = 0 -> 1
      [] p = 9 -> 5
      [] p = 3 -> 3
      [] p = Omitted -> 3

\* C4: every stored entry has a priority in 1..5, and an accepted add stores
\* 1 for priority 0, 5 for 9, 3 for 3 and 3 when the priority is left out.
C4_PriorityClamped ==
    /\ \A i \in 1..Len(Store(file)) : Store(file)[i][2].priority \in 1..5
    /\ (last.op = "add" /\ last.result = "added")
          => Get(Store(file), last.name).priority = ClampedAsClaimed(last.priority)

\* Priority 0 was just stored as 1 beside an entry stored with priority 5.
C4_Witness ==
    /\ last.op = "add" /\ last.result = "added" /\ last.priority = 0
    /\ Len(Store(file)) = 2
    /\ Get(Store(file), last.name).priority = 1
    /\ \E m \in Names \ {last.name} : Get(Store(file), m).priority = 5

-----------------------------------------------------------------------------
(* C5: overlapping invocations *)

-----------------------------------------------------------------------------
(* C6: added_by and added_at *)

SameStamps(n) ==
    /\ Get(Store(file'), n).added_by = Get(Store(file), n).added_by
    /\ Get(Store(file'), n).added_at = Get(Store(file), n).added_at

\* C6 as claimed: while an entry stays under a name, no command changes its
\* added_by or added_at.
C6_StampsNeverChange ==
    [][ \A n \in Names :
          (Has(Store(file), n) /\ Has(Store(file'), n)) => SameStamps(n) ]_vars

\* C6 as amended: while an entry stays under a name, its added_by and
\* added_at change only in an accepted add of that same name; list, remove and
\* an add of another name leave them alone.
C6_StampsChangeOnlyOnReAdd ==
    [][ \A n \in Names :
          (Has(Store(file), n) /\ Has(Store(file'), n)) =>
              \/ SameStamps(n)
              \/ /\ CommandStep
                 /\ last'.op = "add" /\ last'.result = "added" /\ last'.name = n ]_vars

\* After a later add of "hw", the entry under the empty name still carries
\* the user and the time of its own add.
C6_Witness ==
    /\ now = TickStep
    /\ last.op = "add" /\ last.name = "hw" /\ last.result = "added"
    /\ Has(Store(file), "") /\ Has(Store(file), "hw")
    /\ Get(Store(file), "hw").added_at = isoformat(TickStep)
    /\ Get(Store(file), "").added_at = isoformat(0)
    /\ Get(Store(file), "").added_by # Get(Store(file), "hw").added_by

-----------------------------------------------------------------------------
(* C7, C8, C9: listing *)

\* The names due at or after `clock`, and the others.
UpcomingNames(d, clock) == {n \in Keys(d) : Due(d, n) >= clock}
PastNames(d, clock) == Keys(d) \ UpcomingNames(d, clock)

\* The names a list command is to show before the limit is applied.
Candidates(d, clock, show_all) ==
    UpcomingNames(d, clock) \cup (IF show_all THEN PastNames(d, clock) ELSE {})

\* C7 as claimed: a non-positive limit shows nothing, a positive limit shows
\* min(limit, number of candidates) entries.
C7_LimitTruncates ==
    [][ (CommandStep /\ last'.op = "list") =>
          Len(last'.shown) =
              IF limit_param(last'.limit) <= 0 THEN 0
              ELSE Min(limit_param(last'.limit),
                       Cardinality(Candidates(Store(file), now, last'.show_all))) ]_vars

C9_DaysAgoIsFloor ==
    [][ (CommandStep /\ last'.op = "list") =>
          \A i \in 1..Len(last'.shown) :
              LET due == Due(Store(file), last'.shown[i][1]) IN
              due < now =>
                  last'.shown[i][2] = <<"days ago", (now - due) \div MinutesPerDay>> ]_vars

-----------------------------------------------------------------------------
(* C10: loading *)

\* C10 as claimed: whatever the file holds, load returns a mapping the handler
\* can use, so no handler raises after loading.
C10_LoadAlwaysUsable == last.loaded => last.result # "exception"

====
